---- MODULE Spec2Model ----
(***************************************************************************)
(* extract_poses.py: Nerfstudio/COLMAP camera poses -> ROS2 PoseStamped.   *)
(*                                                                         *)
(* The script is modelled as a sequential state machine: one action per    *)
(* step of main() (file checks, json.load, get_video_fps, sorted(), one    *)
(* loop iteration per frame, the empty-result exit, the YAML write).       *)
(* Python floats are IEEE-754 binary64; they are modelled exactly, as a    *)
(* sign, a 53-bit significand held in 15-bit limbs and a binary exponent,  *)
(* with round-to-nearest-even after every operation.                       *)
(***************************************************************************)
EXTENDS Integers, Sequences, FiniteSets, TLC

(***************************************************************************)
(* Natural numbers of arbitrary size: little-endian sequences of limbs,    *)
(* no leading zero limb, <<>> is zero.                                     *)
(***************************************************************************)
Radix == 2 ^ 15
LimbBits == 15

Limb(w, k) == IF k <= Len(w) THEN w[k] ELSE 0

RECURSIVE BigNorm(_)
BigNorm(x) ==
    IF x = <<>> THEN <<>>
    ELSE IF x[Len(x)] = 0 THEN BigNorm(SubSeq(x, 1, Len(x) - 1))
    ELSE x

RECURSIVE BigFromInt(_)
BigFromInt(n) ==
    IF n = 0 THEN <<>> ELSE <<n % Radix>> \o BigFromInt(n \div Radix)

RECURSIVE BigToInt(_)
BigToInt(x) ==
    IF x = <<>> THEN 0 ELSE x[1] + Radix * BigToInt(Tail(x))

RECURSIVE AddFrom(_, _, _, _)
AddFrom(x, y, i, c) ==
    IF i > Len(x) /\ i > Len(y)
    THEN (IF c = 0 THEN <<>> ELSE <<c>>)
    ELSE LET s == Limb(x, i) + Limb(y, i) + c
         IN  <<s % Radix>> \o AddFrom(x, y, i + 1, s \div Radix)

BigAdd(x, y) == AddFrom(x, y, 1, 0)

RECURSIVE SubFrom(_, _, _, _)
SubFrom(x, y, i, b) ==
    IF i > Len(x) THEN <<>>
    ELSE LET d == Limb(x, i) - Limb(y, i) - b
         IN  IF d < 0 THEN <<d + Radix>> \o SubFrom(x, y, i + 1, 1)
                      ELSE <<d>> \o SubFrom(x, y, i + 1, 0)

\* x - y, for x >= y
BigSub(x, y) == BigNorm(SubFrom(x, y, 1, 0))

RECURSIVE CmpFrom(_, _, _)
CmpFrom(x, y, i) ==
    IF i = 0 THEN 0
    ELSE IF x[i] < y[i] THEN -1
    ELSE IF x[i] > y[i] THEN 1
    ELSE CmpFrom(x, y, i - 1)

BigCmp(x, y) ==
    IF Len(x) < Len(y) THEN -1
    ELSE IF Len(x) > Len(y) THEN 1
    ELSE CmpFrom(x, y, Len(x))

RECURSIVE MulSmallFrom(_, _, _, _)
MulSmallFrom(x, k, i, c) ==
    IF i > Len(x) THEN BigFromInt(c)
    ELSE LET p == x[i] * k + c
         IN  <<p % Radix>> \o MulSmallFrom(x, k, i + 1, p \div Radix)

\* x * k, for 0 <= k <= Radix
BigMulSmall(x, k) == IF k = 0 THEN <<>> ELSE MulSmallFrom(x, k, 1, 0)

BigShiftLimbs(x, n) == IF x = <<>> THEN <<>> ELSE [i \in 1..n |-> 0] \o x

RECURSIVE MulFrom(_, _, _)
MulFrom(x, y, j) ==
    IF j > Len(y) THEN <<>>
    ELSE BigAdd(BigShiftLimbs(BigMulSmall(x, y[j]), j - 1), MulFrom(x, y, j + 1))

BigMul(x, y) == MulFrom(x, y, 1)

\* x * 2^k
BigShl(x, k) ==
    BigShiftLimbs(BigMulSmall(x, 2 ^ (k % LimbBits)), k \div LimbBits)

\* x \div 2^k
BigShr(x, k) ==
    LET drop == k \div LimbBits
        d    == 2 ^ (k % LimbBits)
        y    == IF drop >= Len(x) THEN <<>> ELSE SubSeq(x, drop + 1, Len(x))
    IN  BigNorm([i \in 1..Len(y) |->
                   (y[i] \div d) + (Limb(y, i + 1) % d) * (Radix \div d)])

\* x % 2^k
BigLowBits(x, k) ==
    LET full == k \div LimbBits
        d    == 2 ^ (k % LimbBits)
    IN  IF full >= Len(x) THEN x
        ELSE BigNorm(SubSeq(x, 1, full) \o <<x[full + 1] % d>>)

RECURSIVE BitLen(_)
BitLen(n) == IF n = 0 THEN 0 ELSE 1 + BitLen(n \div 2)

BigBitLen(x) ==
    IF x = <<>> THEN 0 ELSE LimbBits * (Len(x) - 1) + BitLen(x[Len(x)])

BigIsOdd(x) == x # <<>> /\ x[1] % 2 = 1

\* the largest k <= qh with k * d <= r (qh overshoots by at most two)
RECURSIVE QuotientDigit(_, _, _)
QuotientDigit(r, d, qh) ==
    IF BigCmp(BigMulSmall(d, qh), r) <= 0 THEN qh
    ELSE QuotientDigit(r, d, qh - 1)

\* n more limbs of the long division r / d (schoolbook, one limb a step),
\* for r < d on entry and the top limb of d at least Radix / 2
RECURSIVE DivLimbs(_, _, _, _)
DivLimbs(r, d, q, n) ==
    IF n = 0 THEN [q |-> q, r |-> r]
    ELSE LET r2  == BigShiftLimbs(r, 1)
             est == (Limb(r2, Len(d) + 1) * Radix + Limb(r2, Len(d))) \div d[Len(d)]
             dig == QuotientDigit(r2, d, IF est > Radix - 1 THEN Radix - 1 ELSE est)
         IN  DivLimbs(BigSub(r2, BigMulSmall(d, dig)), d,
                      BigNorm(<<dig>> \o q), n - 1)

(***************************************************************************)
(* IEEE-754 binary64 values: sign * m * 2^e with 2^52 <= m < 2^53, or      *)
(* zero (m = <<>>).  Mantissa == 53 is the significand width of a Python   *)
(* float.                                                                  *)
(***************************************************************************)
Mantissa == 53

DoubleZero == [sign |-> 1, m |-> <<>>, e |-> 0]

\* sign * (N * 2^e [+ a positive amount below one unit of N, if sticky]),
\* rounded to nearest, ties to even
RoundToDouble(sign, N, e, sticky) ==
    LET L == BigBitLen(N) IN
    IF N = <<>> THEN DoubleZero
    ELSE IF L <= Mantissa
    THEN [sign |-> sign, m |-> BigShl(N, Mantissa - L), e |-> e - (Mantissa - L)]
    ELSE LET sh   == L - Mantissa
             q    == BigShr(N, sh)
             rem  == BigLowBits(N, sh)
             half == BigShl(<<1>>, sh - 1)
             c    == BigCmp(rem, half)
             up   == c > 0 \/ (c = 0 /\ (sticky \/ BigIsOdd(q)))
             q1   == IF up THEN BigAdd(q, <<1>>) ELSE q
         IN  IF BigBitLen(q1) > Mantissa
             THEN [sign |-> sign, m |-> BigShr(q1, 1), e |-> e + sh + 1]
             ELSE [sign |-> sign, m |-> q1, e |-> e + sh]

Abs(n) == IF n < 0 THEN -n ELSE n
Sgn(n) == IF n < 0 THEN -1 ELSE 1

\* float(n) for an int n
DoubleFromInt(n) == RoundToDouble(Sgn(n), BigFromInt(Abs(n)), 0, FALSE)

DoubleIsZero(a) == a.m = <<>>
DoubleIsPositive(a) == a.m # <<>> /\ a.sign = 1

\* a / b for b # 0, correctly rounded: both significands are widened to
\* whole limbs, the quotient is carried to QuotLimbs further limbs and the
\* remainder is the sticky bit
QuotLimbs == 4
DoubleDiv(a, b) ==
    IF DoubleIsZero(a) THEN DoubleZero
    ELSE LET pad == QuotLimbs * LimbBits - Mantissa
             num == BigShl(a.m, pad)
             den == BigShl(b.m, pad)
             ge  == BigCmp(num, den) >= 0
             res == DivLimbs(IF ge THEN BigSub(num, den) ELSE num, den,
                             IF ge THEN <<1>> ELSE <<>>, QuotLimbs)
         IN  RoundToDouble(a.sign * b.sign, res.q,
                           a.e - b.e - QuotLimbs * LimbBits, res.r # <<>>)

\* a * b, correctly rounded
DoubleMul(a, b) ==
    RoundToDouble(a.sign * b.sign, BigMul(a.m, b.m), a.e + b.e, FALSE)

\* integer part of |a|, as an int
DoubleTrunc(a) ==
    IF DoubleIsZero(a) THEN 0
    ELSE IF a.e >= 0 THEN BigToInt(BigShl(a.m, a.e))
    ELSE BigToInt(BigShr(a.m, -a.e))

\* fractional part of |a| (exact)
DoubleFrac(a) ==
    IF DoubleIsZero(a) \/ a.e >= 0 THEN DoubleZero
    ELSE RoundToDouble(1, BigLowBits(a.m, -a.e), a.e, FALSE)

\* 1.0 - f for 0 < f < 1, correctly rounded
DoubleOneMinus(f) ==
    RoundToDouble(1, BigSub(BigShl(<<1>>, -f.e), f.m), f.e, FALSE)

(***************************************************************************)
(* Timestamp derivation (main, lines 93-96 and 107).                       *)
(***************************************************************************)
NanosPerSec == 1000000000

\* divmod(t, 1) on a float: fmod is exact; a negative remainder is moved
\* into [0, 1] by adding 1.0 (rounded) and the quotient is lowered by one
DivMod1(t) ==
    IF t.sign = 1 \/ DoubleIsZero(DoubleFrac(t))
    THEN [div |-> t.sign * DoubleTrunc(t), mod |-> DoubleFrac(t)]
    ELSE [div |-> -DoubleTrunc(t) - 1, mod |-> DoubleOneMinus(DoubleFrac(t))]

\* the guard left out: the division is made whatever the rate
FpsNotChecked(fps) == TRUE

\* the guard "fps > 0" of line 93
FpsPositive(fps) == DoubleIsPositive(fps)

\* (frame_number - 1) / fps if fps > 0 else 0; a division by a zero fps
\* would raise ZeroDivisionError
timestamp_sec_float(frame_number, fps) ==
    IF FpsPositive(fps)
    THEN (IF DoubleIsZero(fps)
          THEN [error |-> "ZeroDivisionError", value |-> DoubleZero]
          ELSE [error |-> "none",
                value |-> DoubleDiv(DoubleFromInt(frame_number - 1), fps)])
    ELSE [error |-> "none", value |-> DoubleZero]

\* {'sec': int(ts_sec), 'nanosec': int(ts_nanosec_float * 1e9)}
Stamp(t) ==
    LET dm == DivMod1(t)
    IN  [sec     |-> dm.div,
         nanosec |-> DoubleTrunc(DoubleMul(dm.mod, DoubleFromInt(NanosPerSec)))]


(***************************************************************************)
(* Python str values: sequences of one-character strings.  Alphabet lists  *)
(* the characters the model uses in code-point order, which is the order   *)
(* str comparison (and so sorted()) goes by.                               *)
(***************************************************************************)
Alphabet ==
    << "\n", "-", ".", "/", "0", "1", "2", "3", "4", "5", "6", "7", "8", "9",
       "A", "N", "_", "a", "e", "f", "g", "i", "m", "n", "o", "p", "r", "s" >>

Ord(c) == CHOOSE n \in 1..Len(Alphabet) : Alphabet[n] = c

IsDigit(c) == c \in {"0", "1", "2", "3", "4", "5", "6", "7", "8", "9"}
DigitVal(c) == Ord(c) - Ord("0")

\* a < b on str
RECURSIVE StrLess(_, _)
StrLess(a, b) ==
    IF b = <<>> THEN FALSE
    ELSE IF a = <<>> THEN TRUE
    ELSE IF a[1] = b[1] THEN StrLess(Tail(a), Tail(b))
    ELSE Ord(a[1]) < Ord(b[1])

\* int() of a run of decimal digits
RECURSIVE IntOfDigits(_)
IntOfDigits(ds) ==
    IF ds = <<>> THEN 0
    ELSE 10 * IntOfDigits(SubSeq(ds, 1, Len(ds) - 1)) + DigitVal(ds[Len(ds)])

\* the longest run of digits of str starting at position p
RECURSIVE DigitRun(_, _)
DigitRun(str, p) ==
    IF p > Len(str) \/ ~IsDigit(str[p]) THEN <<>>
    ELSE <<str[p]>> \o DigitRun(str, p + 1)

(***************************************************************************)
(* extract_frame_number (lines 33-38): re.search(r"frame_(\d+)", path),    *)
(* the leftmost match with a greedy digit group; ValueError without one.   *)
(***************************************************************************)
Marker == <<"f", "r", "a", "m", "e", "_">>

MatchAt(str, p) ==
    /\ p + Len(Marker) <= Len(str)
    /\ SubSeq(str, p, p + Len(Marker) - 1) = Marker
    /\ IsDigit(str[p + Len(Marker)])

extract_frame_number(file_path) ==
    LET starts == {p \in 1..Len(file_path) : MatchAt(file_path, p)}
        first  == CHOOSE p \in starts : \A o \in starts : p <= o
    IN  IF starts = {}
        THEN [ok |-> FALSE, error |-> "ValueError", value |-> 0]
        ELSE [ok |-> TRUE, error |-> "none",
              value |-> IntOfDigits(DigitRun(file_path, first + Len(Marker)))]

(***************************************************************************)
(* get_video_fps (lines 14-30).  video_is_file is the outcome of           *)
(* video_path.is_file(); run is the outcome of subprocess.run on ffprobe:  *)
(* its kind ("ok", "CalledProcessError", "FileNotFoundError") and stdout.  *)
(***************************************************************************)
IsSpace(c) == c \in {"\n"}

\* str.strip()
RECURSIVE Strip(_)
Strip(str) ==
    IF str = <<>> THEN <<>>
    ELSE IF IsSpace(str[1]) THEN Strip(Tail(str))
    ELSE IF IsSpace(str[Len(str)]) THEN Strip(SubSeq(str, 1, Len(str) - 1))
    ELSE str

\* str.split(sep): the pieces between the separators, empty pieces kept
RECURSIVE Split(_, _)
Split(str, sep) ==
    LET cuts == {p \in 1..Len(str) : str[p] = sep}
        cut  == CHOOSE p \in cuts : \A o \in cuts : p <= o
    IN  IF cuts = {} THEN <<str>>
        ELSE <<SubSeq(str, 1, cut - 1)>> \o Split(SubSeq(str, cut + 1, Len(str)), sep)

\* int(str): an optional sign and one or more digits, else ValueError
ParseInt(str) ==
    LET neg  == str # <<>> /\ str[1] = "-"
        body == IF neg THEN Tail(str) ELSE str
    IN  IF body # <<>> /\ \A p \in 1..Len(body) : IsDigit(body[p])
        THEN [ok |-> TRUE, value |-> IF neg THEN -IntOfDigits(body) ELSE IntOfDigits(body)]
        ELSE [ok |-> FALSE, value |-> 0]

\* num, den = map(int, stdout.strip().split('/')): ValueError when a piece
\* is not an int or when there are not exactly two pieces
ParseRate(stdout) ==
    LET pieces == Split(Strip(stdout), "/")
    IN  IF Len(pieces) = 2 /\ ParseInt(pieces[1]).ok /\ ParseInt(pieces[2]).ok
        THEN [ok |-> TRUE, num |-> ParseInt(pieces[1]).value,
              den |-> ParseInt(pieces[2]).value]
        ELSE [ok |-> FALSE, num |-> 0, den |-> 0]

\* num / den if den != 0 else 0
RateOf(num, den) ==
    IF den # 0 THEN DoubleDiv(DoubleFromInt(num), DoubleFromInt(den))
    ELSE DoubleZero

\* ValueError left uncaught by the resolver's handler and taken for "no rate"
get_video_fps_lenient(video_is_file, run) ==
    IF ~video_is_file THEN [exit |-> 1, fps |-> DoubleZero]
    ELSE IF run.kind \in {"CalledProcessError", "FileNotFoundError"}
    THEN [exit |-> 1, fps |-> DoubleZero]
    ELSE IF ~ParseRate(run.stdout).ok THEN [exit |-> 0, fps |-> DoubleZero]
    ELSE [exit |-> 0,
          fps  |-> RateOf(ParseRate(run.stdout).num, ParseRate(run.stdout).den)]

\* exit is 1 where the function calls sys.exit(1), else fps is its result
get_video_fps(video_is_file, run) ==
    IF ~video_is_file THEN [exit |-> 1, fps |-> DoubleZero]
    ELSE IF run.kind \in {"CalledProcessError", "FileNotFoundError"}
    THEN [exit |-> 1, fps |-> DoubleZero]
    ELSE IF ~ParseRate(run.stdout).ok THEN [exit |-> 1, fps |-> DoubleZero]
    ELSE [exit |-> 0,
          fps  |-> RateOf(ParseRate(run.stdout).num, ParseRate(run.stdout).den)]

(***************************************************************************)
(* Coordinate transform (lines 68-73, 98-103).  Matrices are 4x4 tuples of *)
(* rows with integer entries, for which the float products are exact.      *)
(***************************************************************************)
\* the axis map left out
NoAxisMap ==
    << <<1, 0, 0, 0>>,
       <<0, 1, 0, 0>>,
       <<0, 0, 1, 0>>,
       <<0, 0, 0, 1>> >>

CV_TO_ROS_FRAME ==
    << << 0,  0, 1, 0>>,
       <<-1,  0, 0, 0>>,
       << 0, -1, 0, 0>>,
       << 0,  0, 0, 1>> >>

\* the operands the wrong way round: B @ A
MatMulSwapped(A, B) ==
    [r \in 1..4 |-> [c \in 1..4 |->
        B[r][1] * A[1][c] + B[r][2] * A[2][c] + B[r][3] * A[3][c] + B[r][4] * A[4][c]]]

\* A @ B
MatMul(A, B) ==
    [r \in 1..4 |-> [c \in 1..4 |->
        A[r][1] * B[1][c] + A[r][2] * B[2][c] + A[r][3] * B[3][c] + A[r][4] * B[4][c]]]

\* c2w[:3, 3]
TranslationOf(c2w) == <<c2w[1][4], c2w[2][4], c2w[3][4]>>

\* c2w[:3, :3]
RotationOf(c2w) == [r \in 1..3 |-> [c \in 1..3 |-> c2w[r][c]]]

Isqrt(n) == CHOOSE k \in 0..n : k * k <= n /\ (k + 1) * (k + 1) > n

\* Quaternion components are kept in units of 1 / QuatUnit.
QuatUnit == 2

\* Rotation.from_matrix(rot).as_quat(): the largest of the three diagonal
\* entries and the trace (the first one on a tie) selects the branch, and
\* the result is normalised; the order is (x, y, z, w).  The rotations of
\* the model's frames have norms 2 and 4, so the division is exact.
QuatFromMatrix(rot) ==
    LET dec    == <<rot[1][1], rot[2][2], rot[3][3],
                    rot[1][1] + rot[2][2] + rot[3][3]>>
        choice == CHOOSE a \in 1..4 : /\ \A b \in 1..4 : dec[b] <= dec[a]
                                      /\ \A b \in 1..(a - 1) : dec[b] < dec[a]
        i      == choice
        j      == (i % 3) + 1
        k      == (j % 3) + 1
        raw    == IF choice # 4
                  THEN [n \in 1..4 |->
                          IF n = i THEN 1 - dec[4] + 2 * rot[i][i]
                          ELSE IF n = j THEN rot[j][i] + rot[i][j]
                          ELSE IF n = k THEN rot[k][i] + rot[i][k]
                          ELSE rot[k][j] - rot[j][k]]
                  ELSE <<rot[3][2] - rot[2][3], rot[1][3] - rot[3][1],
                         rot[2][1] - rot[1][2], 1 + dec[4]>>
        norm   == Isqrt(raw[1] * raw[1] + raw[2] * raw[2]
                        + raw[3] * raw[3] + raw[4] * raw[4])
    IN  [n \in 1..4 |-> (raw[n] * QuatUnit) \div norm]

(***************************************************************************)
(* One iteration of the loop body (lines 92-115): the pose of a frame, or  *)
(* the exception the body raises.                                          *)
(***************************************************************************)
FrameId == "map"

Raise(e) ==
    [error |-> e,
     pose  |-> [stamp |-> [sec |-> 0, nanosec |-> 0], frame_id |-> FrameId,
                position |-> <<0, 0, 0>>, orientation |-> <<0, 0, 0, 0>>]]

process_frame(frame, rate) ==
    LET number  == extract_frame_number(frame.file_path)
        elapsed == timestamp_sec_float(number.value, rate)
        c2w_ros == MatMul(CV_TO_ROS_FRAME, frame.transform_matrix)
    IN  IF ~frame.has_file_path THEN Raise("KeyError")
        ELSE IF ~number.ok THEN Raise(number.error)
        ELSE IF elapsed.error # "none" THEN Raise(elapsed.error)
        ELSE IF ~frame.has_transform_matrix THEN Raise("KeyError")
        ELSE [error |-> "none",
              pose  |-> [stamp       |-> Stamp(elapsed.value),
                         frame_id    |-> FrameId,
                         position    |-> TranslationOf(c2w_ros),
                         orientation |-> QuatFromMatrix(RotationOf(c2w_ros))]]

(***************************************************************************)
(* sorted(frames, key=lambda f: f['file_path']) (line 90): a stable sort   *)
(* by str comparison of the keys.                                          *)
(***************************************************************************)
\* the sort by the numeric ordinal instead of the raw string
KeyLessNumeric(a, b) ==
    extract_frame_number(a).value < extract_frame_number(b).value

KeyLess(a, b) == StrLess(a, b)

RECURSIVE Insert(_, _)
Insert(f, sq) ==
    IF sq = <<>> THEN <<f>>
    ELSE IF KeyLess(f.file_path, sq[1].file_path) THEN <<f>> \o sq
    ELSE <<sq[1]>> \o Insert(f, Tail(sq))

RECURSIVE Sorted(_)
Sorted(fs) ==
    IF fs = <<>> THEN <<>>
    ELSE Insert(fs[Len(fs)], Sorted(SubSeq(fs, 1, Len(fs) - 1)))

\* the exceptions the loop body's handler catches (line 117)
CaughtKeyErrorOnly == {"KeyError"}

Caught == {"ValueError", "KeyError"}

\* the empty-result test left out
NoPosesNever(poses) == FALSE

\* "if not all_poses" (line 121)
NoPoses(poses) == poses = <<>>

(***************************************************************************)
(* The inputs of a run: the frame records of transforms.json and the       *)
(* outcomes of ffprobe.                                                    *)
(***************************************************************************)
MaxFrames  == 2      \* longest frame list built freely from SampleFrames
MaxOrdinal == 7      \* longest zero-padded run frame_0001 .. frame_000N

Rigid(rot, t) ==
    << <<rot[1][1], rot[1][2], rot[1][3], t[1]>>,
       <<rot[2][1], rot[2][2], rot[2][3], t[2]>>,
       <<rot[3][1], rot[3][2], rot[3][3], t[3]>>,
       <<0, 0, 0, 1>> >>

RotIdentity == << <<1, 0, 0>>, <<0, 1, 0>>, <<0, 0, 1>> >>
RotFlipYZ   == << <<1, 0, 0>>, <<0, -1, 0>>, <<0, 0, -1>> >>
RotToCamera == << <<0, -1, 0>>, <<0, 0, -1>>, <<1, 0, 0>> >>

IdentityMatrix == Rigid(RotIdentity, <<0, 0, 0>>)

DigitChar(d) == Alphabet[Ord("0") + d]

\* str(n).zfill(4)
Pad4(n) ==
    <<DigitChar((n \div 1000) % 10), DigitChar((n \div 100) % 10),
      DigitChar((n \div 10) % 10), DigitChar(n % 10)>>

\* "images/frame_<digits>.png"
ImagePath(digits) ==
    <<"i", "m", "a", "g", "e", "s", "/">> \o Marker \o digits \o <<".", "p", "n", "g">>

OopsPath == <<"i", "m", "a", "g", "e", "s", "/", "o", "o", "p", "s", ".", "p", "n", "g">>

Frame(path, matrix) ==
    [has_file_path |-> TRUE, file_path |-> path,
     has_transform_matrix |-> TRUE, transform_matrix |-> matrix]

FrameNoMatrix(path) ==
    [has_file_path |-> TRUE, file_path |-> path,
     has_transform_matrix |-> FALSE, transform_matrix |-> IdentityMatrix]

FrameNoPath(matrix) ==
    [has_file_path |-> FALSE, file_path |-> <<>>,
     has_transform_matrix |-> TRUE, transform_matrix |-> matrix]

SampleFrames ==
    { Frame(ImagePath(Pad4(1)), IdentityMatrix),
      Frame(ImagePath(Pad4(2)), Rigid(RotToCamera, <<1, 2, 3>>)),
      Frame(ImagePath(Pad4(0)), Rigid(RotFlipYZ, <<1, 2, 3>>)),
      Frame(ImagePath(<<"2">>), Rigid(RotIdentity, <<1, 2, 3>>)),
      Frame(ImagePath(<<"1", "0">>), Rigid(RotFlipYZ, <<-2, 0, 5>>)),
      Frame(OopsPath, Rigid(RotIdentity, <<4, 0, -1>>)),
      Frame(ImagePath(<<>>), IdentityMatrix),
      FrameNoMatrix(ImagePath(Pad4(3))),
      FrameNoPath(IdentityMatrix) }

RECURSIVE SeqsUpTo(_, _)
SeqsUpTo(S, n) ==
    IF n = 0 THEN {<<>>}
    ELSE LET shorter == SeqsUpTo(S, n - 1)
         IN  shorter \cup {Append(sq, x) : sq \in shorter, x \in S}

\* frame_000N, ..., frame_0001: a zero-padded run, listed backwards
PaddedRun(n) ==
    [p \in 1..n |-> Frame(ImagePath(Pad4(n + 1 - p)),
                          Rigid(RotIdentity, <<n + 1 - p, 0, 0>>))]

FrameLists ==
    SeqsUpTo(SampleFrames, MaxFrames)
      \cup {PaddedRun(n) : n \in 1..MaxOrdinal}
      \cup {<<Frame(OopsPath, IdentityMatrix)>> \o PaddedRun(n) : n \in 1..MaxOrdinal}

\* json.load(f): a document without a "frames" key, or with a frame list
TransformsDocs ==
    {[has_frames |-> FALSE, frames |-> <<>>]}
      \cup {[has_frames |-> TRUE, frames |-> fl] : fl \in FrameLists}

Stdouts ==
    { <<"3", "0", "/", "1", "\n">>,
      <<"5", "/", "1", "\n">>,
      <<"3", "0", "0", "0", "0", "/", "1", "0", "0", "1", "\n">>,
      <<"3", "0", "/", "0", "\n">>,
      <<"0", "/", "1", "\n">>,
      <<"-", "3", "0", "/", "1", "\n">>,
      <<"N", "/", "A", "\n">>,
      <<"3", "0", "\n">>,
      <<>> }

ProbeRuns ==
    {[kind |-> "ok", stdout |-> out] : out \in Stdouts}
      \cup {[kind |-> k, stdout |-> <<>>] : k \in {"CalledProcessError", "FileNotFoundError"}}

NotRun == [kind |-> "not run", stdout |-> <<>>]

(***************************************************************************)
(* The run of main().                                                      *)
(***************************************************************************)
Running == -1

VARIABLES
    pc,               \* the position in main()
    transforms_found, \* transforms_path.is_file()
    transforms_data,  \* the loaded document
    video_found,      \* video_path.is_file()
    probe,            \* the outcome of the ffprobe call
    fps,              \* the detected frame rate
    todo,             \* the sorted frames the loop has not reached yet
    all_poses,        \* the poses extracted so far
    pose_frames,      \* the frame each pose of all_poses came from
    skipped,          \* the frames reported on stderr as skipped
    exit_status,      \* the process exit status, Running before the exit
    uncaught,         \* the exception that ended the run in a traceback
    output_dir_made,  \* args.output_dir.mkdir was called
    output_file       \* the poses written to the YAML file, if any

vars == <<pc, transforms_found, transforms_data, video_found, probe, fps, todo,
          all_poses, pose_frames, skipped, exit_status, uncaught,
          output_dir_made, output_file>>

NoFile == [written |-> FALSE, poses |-> <<>>]

Init ==
    /\ pc = "check_transforms"
    /\ transforms_found = FALSE
    /\ transforms_data = [has_frames |-> FALSE, frames |-> <<>>]
    /\ video_found = FALSE
    /\ probe = NotRun
    /\ fps = DoubleZero
    /\ todo = <<>>
    /\ all_poses = <<>>
    /\ pose_frames = <<>>
    /\ skipped = <<>>
    /\ exit_status = Running
    /\ uncaught = "none"
    /\ output_dir_made = FALSE
    /\ output_file = NoFile

\* sys.exit(status), or the end of main() with status 0
Exit(status) ==
    /\ pc' = "exited"
    /\ exit_status' = status

\* lines 75-78
CheckTransforms ==
    /\ pc = "check_transforms"
    /\ \E is_file \in BOOLEAN :
         /\ transforms_found' = is_file
         /\ IF is_file THEN pc' = "load" /\ UNCHANGED exit_status ELSE Exit(1)
    /\ UNCHANGED <<transforms_data, video_found, probe, fps, todo, all_poses,
                   pose_frames, skipped, uncaught, output_dir_made, output_file>>

\* lines 80-82
LoadTransforms ==
    /\ pc = "load"
    /\ \E doc \in TransformsDocs : transforms_data' = doc
    /\ pc' = "get_fps"
    /\ UNCHANGED <<transforms_found, video_found, probe, fps, todo, all_poses,
                   pose_frames, skipped, exit_status, uncaught, output_dir_made,
                   output_file>>

\* lines 84-86
GetVideoFps ==
    /\ pc = "get_fps"
    /\ \E is_file \in BOOLEAN, run \in ProbeRuns :
         LET res == get_video_fps(is_file, run)
         IN  /\ video_found' = is_file
             /\ probe' = IF is_file THEN run ELSE NotRun
             /\ IF res.exit # 0
                THEN Exit(res.exit) /\ UNCHANGED fps
                ELSE pc' = "sort" /\ fps' = res.fps /\ UNCHANGED exit_status
    /\ UNCHANGED <<transforms_found, transforms_data, todo, all_poses,
                   pose_frames, skipped, uncaught, output_dir_made, output_file>>

\* transforms_data.get("frames", [])
FramesOf(doc) == IF doc.has_frames THEN doc.frames ELSE <<>>

\* line 90: the key is taken of every frame before the loop starts, and a
\* frame without 'file_path' raises KeyError outside the try block
SortFrames ==
    /\ pc = "sort"
    /\ LET frames == FramesOf(transforms_data)
       IN  IF \E p \in 1..Len(frames) : ~frames[p].has_file_path
           THEN Exit(1) /\ uncaught' = "KeyError" /\ UNCHANGED todo
           ELSE pc' = "loop" /\ todo' = Sorted(frames)
                /\ UNCHANGED <<exit_status, uncaught>>
    /\ UNCHANGED <<transforms_found, transforms_data, video_found, probe, fps,
                   all_poses, pose_frames, skipped, output_dir_made, output_file>>

\* lines 90-119: one iteration; ValueError and KeyError skip the frame, any
\* other exception leaves the loop and ends the run
ProcessFrame ==
    /\ pc = "loop"
    /\ todo # <<>>
    /\ LET frame == Head(todo)
           res   == process_frame(frame, fps)
       IN  /\ todo' = Tail(todo)
           /\ IF res.error = "none"
              THEN /\ all_poses' = Append(all_poses, res.pose)
                   /\ pose_frames' = Append(pose_frames, frame)
                   /\ UNCHANGED <<pc, skipped, exit_status, uncaught>>
              ELSE IF res.error \in Caught
              THEN /\ skipped' = Append(skipped, frame)
                   /\ UNCHANGED <<pc, all_poses, pose_frames, exit_status, uncaught>>
              ELSE /\ Exit(1)
                   /\ uncaught' = res.error
                   /\ UNCHANGED <<all_poses, pose_frames, skipped>>
    /\ UNCHANGED <<transforms_found, transforms_data, video_found, probe, fps,
                   output_dir_made, output_file>>

\* lines 121-123
EmptyResult ==
    /\ pc = "loop"
    /\ todo = <<>>
    /\ NoPoses(all_poses)
    /\ Exit(0)
    /\ UNCHANGED <<transforms_found, transforms_data, video_found, probe, fps,
                   todo, all_poses, pose_frames, skipped, uncaught,
                   output_dir_made, output_file>>

\* lines 125-141
SavePoses ==
    /\ pc = "loop"
    /\ todo = <<>>
    /\ ~NoPoses(all_poses)
    /\ output_dir_made' = TRUE
    /\ output_file' = [written |-> TRUE, poses |-> all_poses]
    /\ Exit(0)
    /\ UNCHANGED <<transforms_found, transforms_data, video_found, probe, fps,
                   todo, all_poses, pose_frames, skipped, uncaught>>

Next ==
    \/ CheckTransforms
    \/ LoadTransforms
    \/ GetVideoFps
    \/ SortFrames
    \/ ProcessFrame
    \/ EmptyResult
    \/ SavePoses

Spec == Init /\ [][Next]_vars

(***************************************************************************)
(* Vocabulary of the properties.                                           *)
(***************************************************************************)
Frames == FramesOf(transforms_data)

\* the frame has an identifier without a "frame_<digits>" marker
Malformed(f) == f.has_file_path /\ ~extract_frame_number(f.file_path).ok

\* the frame has an extractable ordinal and a transform_matrix
Usable(f) ==
    f.has_file_path /\ extract_frame_number(f.file_path).ok /\ f.has_transform_matrix

UsableCount(fs) == Cardinality({p \in 1..Len(fs) : Usable(fs[p])})

\* the numerator/denominator pair ffprobe reported
Rate == ParseRate(probe.stdout)

\* the frame rate was resolved: both files exist and ffprobe gave a pair
FpsResolved ==
    /\ pc \in {"sort", "loop", "exited"}
    /\ transforms_found /\ video_found
    /\ probe.kind = "ok" /\ Rate.ok

\* the loop over the frames has been entered
LoopEntered == pc = "loop" \/ (pc = "exited" /\ exit_status = 0)

\* the frames the loop has gone through, in the order it took them
Consumed == pose_frames \o skipped

StampOf(sec, nanosec) == [sec |-> sec, nanosec |-> nanosec]

\* lexicographic order on (sec, nanosec)
StampLeq(a, b) == a.sec < b.sec \/ (a.sec = b.sec /\ a.nanosec <= b.nanosec)

\* the pose list the loop makes of a frame list none of whose frames fails
PosesOf(fs, rate) == [p \in 1..Len(fs) |-> process_frame(fs[p], rate).pose]

Count(fs, f) == Cardinality({p \in 1..Len(fs) : fs[p] = f})

\* the first k decimals of r / n, for 0 <= r < n, as an integer
RECURSIVE Decimals(_, _, _)
Decimals(r, n, k) ==
    IF k = 0 THEN 0
    ELSE ((r * 10) \div n) * (10 ^ (k - 1)) + Decimals((r * 10) % n, n, k - 1)

\* k / (num / den) seconds in exact arithmetic: whole seconds, and the
\* floor of the remainder in nanoseconds
ExactStamp(k, num, den) ==
    StampOf((k * den) \div num, Decimals((k * den) % num, num, 9))

(***************************************************************************)
(* C1: the concrete example.                                               *)
(***************************************************************************)
ExampleRun ==
    /\ pc = "exited"
    /\ FpsResolved
    /\ transforms_data.has_frames
    /\ Frames = <<Frame(ImagePath(Pad4(1)), IdentityMatrix)>>
    /\ Rate.num = 30 /\ Rate.den = 1

\* C1 as stated: for the single frame "images/frame_0001.png" with the
\* identity matrix at frame rate 30, the one emitted pose has stamp (0, 0),
\* position (0, 0, 0) and orientation (x, y, z, w) = (0, 0, 0, 1).
C1_IdentityOrientation ==
    ExampleRun =>
        /\ Len(output_file.poses) = 1
        /\ output_file.poses[1].stamp = StampOf(0, 0)
        /\ output_file.poses[1].position = <<0, 0, 0>>
        /\ output_file.poses[1].orientation = <<0, 0, 0, QuatUnit>>

\* C1 amended: in that run the one emitted pose has stamp (0, 0), position
\* (0, 0, 0) and the orientation of the axis map itself: (x, y, z, w) =
\* (0.5, -0.5, 0.5, -0.5), or its negation, which is the same rotation; the
\* rotation block of the transformed matrix is [[0,0,1],[-1,0,0],[0,-1,0]].
C1_AxisMapOrientation ==
    ExampleRun =>
        /\ Len(output_file.poses) = 1
        /\ output_file.poses[1].stamp = StampOf(0, 0)
        /\ output_file.poses[1].position = <<0, 0, 0>>
        /\ output_file.poses[1].orientation \in {<<1, -1, 1, -1>>, <<-1, 1, -1, 1>>}
        /\ RotationOf(MatMul(CV_TO_ROS_FRAME, pose_frames[1].transform_matrix))
             = << <<0, 0, 1>>, <<-1, 0, 0>>, <<0, -1, 0>> >>

C1_Witness == ExampleRun /\ output_file.written

(***************************************************************************)
(* C2: the range of the timestamp fields.                                  *)
(***************************************************************************)
\* C2: every emitted pose has whole seconds >= 0 and nanoseconds in
\* [0, 1e9), for every non-negative ordinal (ordinal 0 included) and every
\* frame rate.
C2_StampRange ==
    \A p \in 1..Len(all_poses) :
        /\ all_poses[p].stamp.sec >= 0
        /\ all_poses[p].stamp.nanosec >= 0
        /\ all_poses[p].stamp.nanosec < NanosPerSec

(***************************************************************************)
(* C3: timestamps of a zero-padded run frame_0001 .. frame_000N.           *)
(***************************************************************************)
PaddedInput ==
    /\ FpsResolved
    /\ Frames # <<>>
    /\ Frames = PaddedRun(Len(Frames))
    /\ Rate.num > 0 /\ Rate.den > 0

\* C3: for ordinals 1..N with equal-width identifiers and a frame rate
\* F > 0, the i-th pose carries sec = floor((i-1)/F) and nanosec =
\* floor(((i-1)/F - sec) * 1e9), and the stamps are non-decreasing in
\* output order.
C3_ExactStamps ==
    PaddedInput =>
        \A p \in 1..Len(all_poses) :
            /\ all_poses[p].stamp = ExactStamp(p - 1, Rate.num, Rate.den)
            /\ p > 1 => StampLeq(all_poses[p - 1].stamp, all_poses[p].stamp)

(***************************************************************************)
(* C4: one malformed identifier among valid frames.                        *)
(***************************************************************************)
OneMalformedAmongValid ==
    /\ Len(Frames) >= 2
    /\ \E q \in 1..Len(Frames) :
         /\ Malformed(Frames[q])
         /\ \A p \in 1..Len(Frames) : p # q => Usable(Frames[p])

IsolationRun == FpsResolved /\ pc = "exited" /\ OneMalformedAmongValid

AllSkippedRun ==
    /\ FpsResolved
    /\ pc = "exited"
    /\ \A p \in 1..Len(Frames) : Frames[p].has_file_path /\ ~Usable(Frames[p])

\* C5: when every frame is skipped (all identifiers malformed, or the frame
\* list empty or absent) the run ends with exit status zero and zero poses,
\* without creating the output directory or writing a file; a file is
\* written only in runs where at least one pose survived.
C5_EmptyResult ==
    /\ AllSkippedRun =>
         /\ exit_status = 0
         /\ all_poses = <<>>
         /\ ~output_dir_made
         /\ ~output_file.written
    /\ (output_dir_made \/ output_file.written) =>
         /\ all_poses # <<>>
         /\ output_file.poses = all_poses

C5_Witness ==
    /\ AllSkippedRun
    /\ Len(Frames) >= 2
    /\ Len(skipped) = Len(Frames)
    /\ exit_status = 0

(***************************************************************************)
(* C6: fatal conditions.                                                   *)
(***************************************************************************)
FatalCondition ==
    \/ pc # "check_transforms" /\ ~transforms_found
    \/ /\ pc \in {"sort", "loop", "exited"}
       /\ transforms_found
       /\ ~video_found \/ probe.kind # "ok" \/ ~Rate.ok

NothingDone ==
    /\ todo = <<>> /\ all_poses = <<>> /\ skipped = <<>>
    /\ ~output_dir_made /\ ~output_file.written

\* C6: a missing reconstruction file, a missing video file, a failing or
\* missing ffprobe, or output that is no integer pair ends the run with a
\* non-zero status before any frame is processed or any file written; the
\* frame rate is resolved before the first frame is processed; a fatal exit
\* never follows the write of the output document.
C6_FatalBeforeFrames ==
    /\ FatalCondition =>
         /\ pc = "exited"
         /\ exit_status = 1
         /\ NothingDone
    /\ (todo # <<>> \/ all_poses # <<>> \/ skipped # <<>>) =>
         /\ FpsResolved
         /\ fps = RateOf(Rate.num, Rate.den)
    /\ output_file.written => exit_status = 0

C6_Witness ==
    /\ pc = "exited"
    /\ exit_status = 1
    /\ video_found
    /\ probe.kind = "ok"
    /\ ~Rate.ok
    /\ Len(Frames) >= 2

(***************************************************************************)
(* C7: the zero frame rate.                                                *)
(***************************************************************************)
ZeroDenominator ==
    /\ pc \in {"sort", "loop", "exited"}
    /\ transforms_found /\ video_found
    /\ probe.kind = "ok" /\ Rate.ok /\ Rate.den = 0

\* C7: with a zero denominator the resolver returns frame rate 0 instead
\* of ending the run; with frame rate 0 every emitted pose has stamp
\* (0, 0) whatever its ordinal; no division by zero is reached.
C7_ZeroRate ==
    /\ ZeroDenominator =>
         /\ DoubleIsZero(fps)
         /\ pc = "exited" => (exit_status = 0 \/ uncaught # "none")
    /\ ~DoubleIsPositive(fps) =>
         \A p \in 1..Len(all_poses) : all_poses[p].stamp = StampOf(0, 0)
    /\ uncaught # "ZeroDivisionError"

C7_Witness ==
    /\ ZeroDenominator
    /\ output_file.written
    /\ \E p \in 1..Len(all_poses) :
         /\ extract_frame_number(pose_frames[p].file_path).value >= 2
         /\ all_poses[p].stamp = StampOf(0, 0)

(***************************************************************************)
(* C8: the output order.                                                   *)
(***************************************************************************)
OwnStamp(f) ==
    Stamp(timestamp_sec_float(extract_frame_number(f.file_path).value, fps).value)

\* C8: the poses list the surviving frames in ascending lexicographic
\* order of their raw file_path strings, and each pose's stamp is computed
\* from that frame's own ordinal, not from its position.
C8_LexicographicOrder ==
    /\ Len(all_poses) = Len(pose_frames)
    /\ \A p, q \in 1..Len(pose_frames) :
         p < q => ~StrLess(pose_frames[q].file_path, pose_frames[p].file_path)
    /\ \A p \in 1..Len(pose_frames) : all_poses[p].stamp = OwnStamp(pose_frames[p])
    /\ (pc = "exited" /\ exit_status = 0) =>
         \A p \in 1..Len(Frames) :
             Count(pose_frames, Frames[p])
               = IF Usable(Frames[p]) THEN Count(Frames, Frames[p]) ELSE 0

\* "frame_10" precedes "frame_2", and the stamps decrease
C8_Witness ==
    /\ output_file.written
    /\ \E p, q \in 1..Len(pose_frames) :
         /\ p < q
         /\ pose_frames[p].file_path = ImagePath(<<"1", "0">>)
         /\ pose_frames[q].file_path = ImagePath(<<"2">>)
         /\ ~StampLeq(all_poses[p].stamp, all_poses[q].stamp)

(***************************************************************************)
(* C9: the axis-convention map.                                            *)
(***************************************************************************)
\* C9: for every input matrix with translation column (tx, ty, tz) the
\* emitted position is (tz, -tx, -ty), whatever the other entries; applied
\* to the identity the map yields translation zero and the rotation block
\* [[0,0,1],[-1,0,0],[0,-1,0]].
C9_AxisMap ==
    /\ \A p \in 1..Len(all_poses) :
         LET t == TranslationOf(pose_frames[p].transform_matrix)
         IN  all_poses[p].position = <<t[3], -t[1], -t[2]>>
    /\ TranslationOf(MatMul(CV_TO_ROS_FRAME, IdentityMatrix)) = <<0, 0, 0>>
    /\ RotationOf(MatMul(CV_TO_ROS_FRAME, IdentityMatrix))
         = << <<0, 0, 1>>, <<-1, 0, 0>>, <<0, -1, 0>> >>

\* two poses of one translation and different rotations
C9_Witness ==
    \E p, q \in 1..Len(all_poses) :
        /\ TranslationOf(pose_frames[p].transform_matrix) = <<1, 2, 3>>
        /\ TranslationOf(pose_frames[q].transform_matrix) = <<1, 2, 3>>
        /\ RotationOf(pose_frames[p].transform_matrix)
             # RotationOf(pose_frames[q].transform_matrix)
        /\ all_poses[p].position = <<3, -1, -2>>
        /\ all_poses[q].position = <<3, -1, -2>>

(***************************************************************************)
(* C10: defects confined to one frame record.                              *)
(***************************************************************************)
\* C10: whichever records lack file_path, lack transform_matrix or carry
\* a malformed identifier, the run skips exactly those records and reaches
\* the write or the zero-exit empty result, never an uncaught error.
C10_NoRecordAborts ==
    FpsResolved =>
        /\ uncaught = "none"
        /\ pc = "exited" =>
             /\ exit_status = 0
             /\ Len(skipped) = Len(Frames) - UsableCount(Frames)

====
